---------------------------- MODULE Spec2Model ----------------------------
(***************************************************************************)
(* A model of glow-export: parse.py (the batch run that writes             *)
(* csvs/summary.csv) and parse_history.py (the event extraction from the   *)
(* calendar graphic).                                                      *)
(*                                                                         *)
(* Python strings are sequences of one-character strings, so that          *)
(* endswith, split, join, lower and slicing are computed character by      *)
(* character.  Cell values of the PDF tables that no operation inspects    *)
(* are carried as opaque tokens.                                           *)
(***************************************************************************)
EXTENDS Integers, Sequences, FiniteSets, TLC

VARIABLES
    \* parse.py, the batch run
    listing,      \* os.listdir(PDF_DIR): the entry names, in listing order
    content,      \* what tabula.read_pdf returns for each PDF of the directory
    csvsExists,   \* whether the directory OUTPUT_DIR exists
    outFiles,     \* the files of OUTPUT_DIR: name -> table
    pc,           \* position of the batch run
    idx,          \* position of the for loop in listing (1-based)
    rows,         \* the list rows
    df,           \* the concatenated, sorted frame
    calls,        \* the parser invocations made so far: <<component, file>>
    \* parse_history.py, one call of extract
    tmpExists,    \* whether the directory TEMP_DIR exists
    tmpSubdir,    \* whether the rendering's subdirectory exists
    image,        \* the rendered page
    start_date,   \* the week's start date, as a day ordinal
    hpc,          \* position of extract
    window,       \* the windows _extract_windows has done: 0..42
    data,         \* the list data of _extract_windows
    \* process_timeseries applied to one series
    arg_values,   \* the argument values
    arg_bin_num,  \* the argument bin_num
    arg_date,     \* the argument date, as a day ordinal
    ret_results,  \* what the call returned
    tpc,          \* position of the call
    \* _get_color_range applied to one triple
    arg_rgb,      \* the arguments r, g, b
    ret_color,    \* what the call returned
    cpc           \* position of the call

batchVars == <<listing, content, csvsExists, outFiles, pc, idx, rows, df, calls>>
historyVars == <<tmpExists, tmpSubdir, image, start_date, hpc, window, data>>
seriesVars == <<arg_values, arg_bin_num, arg_date, ret_results, tpc>>
colorVars == <<arg_rgb, ret_color, cpc>>
vars == <<batchVars, historyVars, seriesVars, colorVars>>
notBatch == <<historyVars, seriesVars, colorVars>>
notHistory == <<batchVars, seriesVars, colorVars>>
notSeries == <<batchVars, historyVars, colorVars>>
notColor == <<batchVars, historyVars, seriesVars>>

Min(a, b) == IF a < b THEN a ELSE b

---------------------------------------------------------------------------
(* Bounds of the model.                                                    *)

\* The longest directory listing.
MaxEntries == 3
\* The longest series handed to process_timeseries on its own.
MaxLen == 6
\* Colour components range over 0, 255 and T - ColorDelta .. T + ColorDelta.
ColorDelta == 5
\* The rendered pages start their colour pattern at column 0 .. MaxOffset.
MaxOffset == 2

---------------------------------------------------------------------------
(* String literals of parse.py.                                            *)

PDF_EXT == <<".", "p", "d", "f">>
WEEK_START_DATE == <<"w", "e", "e", "k", "_", "s", "t", "a", "r", "t", "_", "d", "a", "t", "e">>
LATEST_WEIGHT == <<"L", "a", "t", "e", "s", "t", " ", "W", "e", "i", "g", "h", "t">>
LATEST_HEIGHT == <<"L", "a", "t", "e", "s", "t", " ", "H", "e", "i", "g", "h", "t">>
LATEST_HEAD == <<"L", "a", "t", "e", "s", "t", " ", "H", "e", "a", "d", " ", "C", "i", "r", "c", "u", "m", "f", "e", "r", "e", "n", "c", "e">>
DUE_DATE == <<"D", "u", "e", " ", "D", "a", "t", "e">>
PERCENTILE == <<"P", "e", "r", "c", "e", "n", "t", "i", "l", "e">>
BREASTMILK_IN == <<"B", "r", "e", "a", "s", "t", "m", "i", "l", "k">>
FORMULA_IN == <<"F", "o", "r", "m", "u", "l", "a">>
BREASTMILK_OUT == <<"b", "r", "e", "a", "s", "t", "m", "i", "l", "k">>
FORMULA_OUT == <<"f", "o", "r", "m", "u", "l", "a">>
SPACE == <<" ">>
COLON == <<":">>
UNDERSCORE == <<"_">>
HYPHEN == <<"-">>

\* str.lower on the ASCII letters.
UPPER == <<"A", "B", "C", "D", "E", "F", "G", "H", "I", "J", "K", "L", "M", "N", "O", "P", "Q", "R", "S", "T", "U", "V", "W", "X", "Y", "Z">>
LOWER == <<"a", "b", "c", "d", "e", "f", "g", "h", "i", "j", "k", "l", "m", "n", "o", "p", "q", "r", "s", "t", "u", "v", "w", "x", "y", "z">>

\* The characters of a week_start_date in code-point order ("-" is 45,
\* the digits 48..57): Python orders strings by code point.
CODE_ORDER == <<"-", "0", "1", "2", "3", "4", "5", "6", "7", "8", "9">>

---------------------------------------------------------------------------
(* Python string operations.                                               *)

UPPER_SET == {UPPER[i] : i \in 1..Len(UPPER)}
LOWER_OF == [c \in UPPER_SET |-> LOWER[CHOOSE i \in 1..Len(UPPER) : UPPER[i] = c]]

lower_char(c) == IF c \in UPPER_SET THEN LOWER_OF[c] ELSE c

lower(s) == [i \in 1..Len(s) |-> lower_char(s[i])]

\* s[a:b], with Python's clamping of the bounds.
Slice(s, a, b) == SubSeq(s, Min(a, Len(s)) + 1, Min(b, Len(s)))

\* s[a:]
SliceFrom(s, a) == Slice(s, a, Len(s))

endswith(s, suffix) ==
    /\ Len(s) >= Len(suffix)
    /\ SubSeq(s, Len(s) - Len(suffix) + 1, Len(s)) = suffix

\* sub in s
contains(s, sub) ==
    \E i \in 1..(Len(s) - Len(sub) + 1) : SubSeq(s, i, i + Len(sub) - 1) = sub

\* s.split(sep) for a one-character sep: the pieces between the separators,
\* empty pieces kept.
RECURSIVE split(_, _)
split(s, sep) ==
    IF \A i \in 1..Len(s) : s[i] # sep
    THEN <<s>>
    ELSE LET k == CHOOSE i \in 1..Len(s) :
                      s[i] = sep /\ \A j \in 1..(i - 1) : s[j] # sep
         IN <<SubSeq(s, 1, k - 1)>> \o split(SubSeq(s, k + 1, Len(s)), sep)

\* sep.join(parts)
RECURSIVE join(_, _)
join(sep, parts) ==
    IF Len(parts) = 0 THEN <<>>
    ELSE IF Len(parts) = 1 THEN parts[1]
    ELSE parts[1] \o sep \o join(sep, Tail(parts))

\* os.path.splitext(f)[0]: the name up to its last dot; a name whose only
\* dots lead it has no extension.
splitext_root(f) ==
    LET dots == {i \in 1..Len(f) : f[i] = "."}
        last == CHOOSE i \in dots : \A j \in dots : j <= i
    IN IF dots = {} \/ (\A j \in 1..(last - 1) : f[j] = ".")
       THEN f
       ELSE SubSeq(f, 1, last - 1)

code_point(c) == CHOOSE i \in 1..Len(CODE_ORDER) : CODE_ORDER[i] = c

\* a < b on strings: the first differing character decides, a proper prefix
\* is smaller.
str_less(a, b) ==
    \E k \in 1..(Min(Len(a), Len(b)) + 1) :
        /\ \A j \in 1..(k - 1) : a[j] = b[j]
        /\ \/ k = Len(a) + 1 /\ k <= Len(b)
           \/ k <= Len(a) /\ k <= Len(b) /\ code_point(a[k]) < code_point(b[k])


\* s.replace(old, new): every occurrence, left to right, not overlapping.
RECURSIVE replace(_, _, _)
replace(s, old, new) ==
    IF ~contains(s, old)
    THEN s
    ELSE LET k == CHOOSE i \in 1..(Len(s) - Len(old) + 1) :
                      /\ SubSeq(s, i, i + Len(old) - 1) = old
                      /\ \A j \in 1..(i - 1) : SubSeq(s, j, j + Len(old) - 1) # old
         IN SubSeq(s, 1, k - 1) \o new
                \o replace(SubSeq(s, k + Len(old), Len(s)), old, new)

---------------------------------------------------------------------------
(* The PDFs of the input directory.  A name is a string; a document is    *)
(* what tabula.read_pdf returns for it: a list of tables, each a list of   *)
(* rows of cells.  A compound metric cell is a record: whether the         *)
(* regular expression of _extract_metric_and_percentile matches it, and    *)
(* the groups it then yields.                                              *)

FileA == <<"a", "_", "0", "1", "0", "9", "2", "0", "2", "3", ".", "p", "d", "f">>
FileB == <<"b", "_", "0", "1", "0", "2", "2", "0", "2", "3", ".", "p", "d", "f">>
FileC == <<"c", "_", "0", "1", "0", "9", "2", "0", "2", "3", ".", "p", "d", "f">>
Notes == <<"n", "o", "t", "e", "s", ".", "t", "x", "t">>
Backup == <<"w", ".", "p", "d", "f", "~">>

\* The names a directory may hold: three exports (FileA and FileC of the
\* same week, FileB of the week before) and two entries that are no PDF.
EntryNames == {FileA, FileB, FileC, Notes, Backup}

\* A missing cell (pandas' NaN).
NULL == <<"NaN">>
MINS == <<" ", "m", "i", "n", "s">>
NOT_AVAILABLE == <<"N", "/", "A">>

Metric(imperial, unit, percentile) ==
    [matches |-> TRUE, imperial |-> imperial, unit |-> unit,
     percentile |-> percentile]
MalformedMetric ==
    [matches |-> FALSE, imperial |-> <<>>, unit |-> <<>>, percentile |-> <<>>]

SummaryTable(weight) ==
    << <<<<"A", "g", "e">>, <<"9">>, DUE_DATE, <<"1">>>>,
       <<LATEST_WEIGHT, weight,
         LATEST_HEAD, Metric(<<"1", "4">>, <<"i", "n">>, <<"5", "0">>)>>,
       <<LATEST_HEIGHT, Metric(<<"2", "0">>, <<"i", "n">>, <<"4", "0">>),
         <<"S", "e", "x">>, <<"F">>>> >>

DiaperTable ==
    << <<NULL, <<"T", "o", "t", "a", "l">>, <<"P", "e", "r", " ", "D", "a", "y">>>>,
       <<<<"W", "e", "t">>, <<"4", "2">>, <<"6">>>>,
       <<<<"D", "i", "r", "t", "y">>, <<"2", "1">>, <<"3">>>> >>

FeedingTable(bottle_label, left_total) ==
    << <<NULL, <<"T", "o", "t", "a", "l">>, NULL>>,
       <<<<"L", "e", "f", "t">>, left_total, NULL>>,
       <<<<"R", "i", "g", "h", "t">>, <<"7", " ", "m", "i", "n", "s">>, NULL>>,
       <<NULL, bottle_label, NULL>>,
       <<<<"B", "r", "e", "a", "s", "t", "m", "i", "l", "k", " ", "B", "o", "t", "t", "l", "e">>,
         NOT_AVAILABLE, NULL>>,
       <<<<"F", "o", "r", "m", "u", "l", "a">>, <<"3">>, NULL>> >>

UnusedTable == <<>>

DocNames == {"doc1", "doc2", "doc3", "bad"}

\* doc1 and doc3 have the same labels and differ in a value; doc2 has another
\* bottle-feeding label, hence another column set; bad has a weight cell the
\* regular expression does not match.
Document(d) ==
    LET weight == IF d = "bad" THEN MalformedMetric
                  ELSE Metric(<<"7">>, <<"l", "b", "s">>, <<"2", "8">>)
        label == IF d = "doc2" THEN <<"C", "o", "u", "n", "t">>
                 ELSE <<"A", "v", "g", " ", "V", "o", "l">>
        left == IF d = "doc3" THEN <<"8", " ", "m", "i", "n", "s">>
                ELSE <<"5", " ", "m", "i", "n", "s">>
    IN <<SummaryTable(weight), FeedingTable(label, left), UnusedTable,
         DiaperTable>>

---------------------------------------------------------------------------
(* Frames: a one-row DataFrame is its column names and its values.         *)

Frame(columns, vals) == [columns |-> columns, vals |-> vals]

ColumnIndex(frame, name) ==
    CHOOSE i \in 1..Len(frame.columns) : frame.columns[i] = name

\* frame[name] = value: replaces the column when it exists, appends it
\* otherwise.
SetColumn(frame, name, value) ==
    IF \E i \in 1..Len(frame.columns) : frame.columns[i] = name
    THEN Frame(frame.columns,
               [frame.vals EXCEPT ![ColumnIndex(frame, name)] = value])
    ELSE Frame(Append(frame.columns, name), Append(frame.vals, value))

\* del frame[name]
DelColumn(frame, name) ==
    LET k == ColumnIndex(frame, name)
        keep == [i \in 1..(Len(frame.columns) - 1) |-> IF i < k THEN i ELSE i + 1]
    IN Frame([i \in 1..Len(keep) |-> frame.columns[keep[i]]],
             [i \in 1..Len(keep) |-> frame.vals[keep[i]]])

\* pd.concat([...], axis=1) of one-row frames.
ConcatColumns(frames) ==
    Frame(frames[1].columns \o frames[2].columns \o frames[3].columns,
          frames[1].vals \o frames[2].vals \o frames[3].vals)

\* The values of column k (0-based) of a table.
TableColumn(table, k) == [i \in 1..Len(table) |-> table[i][k + 1]]

---------------------------------------------------------------------------
(* parse.py: the Summary Parser.                                           *)

\* _extract_metric_and_percentile raises ValueError on a cell the regular
\* expression does not match.
metric_raises(string) == ~string.matches

\* _extract_metric_and_percentile: (imperial, unit, percentile).
extract_metric_and_percentile(string) ==
    <<string.imperial, string.unit, string.percentile>>

COMPOUND_COLUMNS == <<LATEST_WEIGHT, LATEST_HEIGHT, LATEST_HEAD>>

\* One round of the loop over the compound columns: two new columns, the
\* compound one deleted.
ExtractCompound(frame, col) ==
    LET r == extract_metric_and_percentile(frame.vals[ColumnIndex(frame, col)])
        unit == r[2]
        with_value == SetColumn(frame, col \o SPACE \o unit, r[1])
        with_percentile == SetColumn(with_value, col \o SPACE \o PERCENTILE, r[3])
    IN DelColumn(with_percentile, col)

\* The executive summary as one frame of key/value pairs, both halves.
FlattenSummary(table) ==
    Frame(TableColumn(table, 0) \o TableColumn(table, 2),
          TableColumn(table, 1) \o TableColumn(table, 3))

parse_executive_summary(table) ==
    LET flattened_df == FlattenSummary(table)
        w == ExtractCompound(flattened_df, COMPOUND_COLUMNS[1])
        h == ExtractCompound(w, COMPOUND_COLUMNS[2])
        c == ExtractCompound(h, COMPOUND_COLUMNS[3])
    IN DelColumn(c, DUE_DATE)

\* Whether _parse_executive_summary raises: a compound cell does not match.
executive_summary_raises(table) ==
    LET flattened_df == FlattenSummary(table)
    IN \E k \in 1..Len(COMPOUND_COLUMNS) :
           metric_raises(flattened_df.vals[ColumnIndex(flattened_df, COMPOUND_COLUMNS[k])])

\* The 0-based positions i >= 1 of a label row, in order.
LabelPositions(labels) == [i \in 1..(Len(labels) - 1) |-> i]

\* Those whose label is not null.
NonNullPositions(labels) ==
    SelectSeq(LabelPositions(labels), LAMBDA i : labels[i + 1] # NULL)

parse_diapers(table) ==
    LET diaper_cols == table[1]
        pos == LabelPositions(diaper_cols)
        OfRow(row) ==
            Frame([k \in 1..Len(pos) |->
                      lower(diaper_cols[pos[k] + 1] \o SPACE \o row[1])],
                  [k \in 1..Len(pos) |-> row[pos[k] + 1]])
        r1 == OfRow(table[2])
        r2 == OfRow(table[3])
    IN Frame(r1.columns \o r2.columns, r1.vals \o r2.vals)

\* The bottle type of a bottle-feeding row.
BottleType(first_cell) ==
    IF contains(first_cell, BREASTMILK_IN) THEN BREASTMILK_OUT
    ELSE IF contains(first_cell, FORMULA_IN) THEN FORMULA_OUT
    ELSE first_cell

\* The column name built for a bottle-feeding field.
BottleColumn(bottle_type, name) == bottle_type \o COLON \o name

\* The bottle-feeding column names of a feeding table, as built.
BottleColumns(table) ==
    LET bottle_feeding_cols == table[4]
        pos == NonNullPositions(bottle_feeding_cols)
        OfRow(row) ==
            [k \in 1..Len(pos) |->
                BottleColumn(BottleType(row[1]), bottle_feeding_cols[pos[k] + 1])]
    IN OfRow(table[5]) \o OfRow(table[6])

parse_feedings(table) ==
    LET breastfeeding_cols == table[1]
        bpos == NonNullPositions(breastfeeding_cols)
        Side(row) ==
            Frame([k \in 1..Len(bpos) |->
                      breastfeeding_cols[bpos[k] + 1] \o SPACE \o row[1]],
                  [k \in 1..Len(bpos) |-> replace(row[bpos[k] + 1], MINS, <<>>)])
        bottle_feeding_cols == table[4]
        pos == NonNullPositions(bottle_feeding_cols)
        BottleValue(cell_value) ==
            LET value == replace(cell_value, MINS, <<>>)
            IN IF value = NOT_AVAILABLE THEN NULL ELSE value
        Bottle(row) == [k \in 1..Len(pos) |-> BottleValue(row[pos[k] + 1])]
        s1 == Side(table[2])
        s2 == Side(table[3])
    IN Frame(s1.columns \o s2.columns \o BottleColumns(table),
             s1.vals \o s2.vals \o Bottle(table[5]) \o Bottle(table[6]))

\* The rename mapper as it would be if it left the names built with a
\* ":" separator alone.
normalize_column_except_bottle(c) ==
    IF contains(c, COLON) THEN c ELSE join(UNDERSCORE, split(lower(c), " "))

\* The rename mapper: "_".join(c.lower().split(" ")).
normalize_column(c) == join(UNDERSCORE, split(lower(c), " "))

\* The date field: the last "_" token of the file's base name, MMDDYYYY,
\* rearranged to YYYY-MM-DD.
week_start_date(f) ==
    LET filebase == splitext_root(f)
        tokens == split(filebase, "_")
        d == tokens[Len(tokens)]
    IN SliceFrom(d, 4) \o HYPHEN \o Slice(d, 0, 2) \o HYPHEN \o Slice(d, 2, 4)

\* Whether parse_summary raises on what tabula returned: not four tables to
\* unpack, or a compound cell that does not match.
parse_summary_raises(tables) ==
    \/ Len(tables) # 4
    \/ executive_summary_raises(tables[1])

\* parse_summary: the one-row frame of a file.
parse_summary(f, tables) ==
    LET raw_summary == tables[1]
        raw_feedings == tables[2]
        raw_diapers == tables[4]
        joined == ConcatColumns(<<parse_executive_summary(raw_summary),
                                  parse_diapers(raw_diapers),
                                  parse_feedings(raw_feedings)>>)
        renamed == Frame([i \in 1..Len(joined.columns) |->
                             normalize_column(joined.columns[i])],
                         joined.vals)
    IN Frame(<<WEEK_START_DATE>> \o renamed.columns,
             <<week_start_date(f)>> \o renamed.vals)

\* parse_summary on each file of the directory and each document it may
\* hold, computed once.
ParsedRow ==
    [f \in {FileA, FileB, FileC}, d \in DocNames \ {"bad"} |->
        parse_summary(f, Document(d))]

\* Whether parse_summary raises on each document, computed once.
ParseRaises == [d \in DocNames |-> parse_summary_raises(Document(d))]

---------------------------------------------------------------------------
(* parse.py: the batch run.                                                *)

\* A table: its header and its rows, each row a one-row frame that keeps
\* its own columns (a column a row lacks is an empty CSV field).
Table(columns, frames) == [columns |-> columns, rows |-> frames]

\* df before the concatenation.
NoTable == Table(<<>>, <<>>)

\* A summary.csv left by an earlier run over other inputs.
StaleTable == Table(<<WEEK_START_DATE>>, <<>>)

SUMMARY_CSV == "summary.csv"
EVENTS_CSV == "events.csv"

\* The columns of pd.concat(rows): the union of the rows' columns, each at
\* its first appearance.
RECURSIVE UnionColumns(_)
UnionColumns(frames) ==
    IF Len(frames) = 0 THEN <<>>
    ELSE LET before == UnionColumns(SubSeq(frames, 1, Len(frames) - 1))
             last == frames[Len(frames)].columns
         IN before \o SelectSeq(last,
                LAMBDA c : \A i \in 1..Len(before) : before[i] # c)

\* pd.concat(rows)
concat(frames) == Table(UnionColumns(frames), frames)

IndexPermutations(n) ==
    {p \in [1..n -> 1..n] : \A i, j \in 1..n : p[i] = p[j] => i = j}

\* sort_values left out: the rows stay in the order of the list.
SortedOrders_unsorted(frames) ==
    {[i \in 1..Len(frames) |-> i]}

\* sort_values with the comparison reversed.
SortedOrders_descending(frames) ==
    {p \in IndexPermutations(Len(frames)) :
        \A i, j \in 1..Len(frames) :
            i < j => ~str_less(frames[p[i]].vals[1], frames[p[j]].vals[1])}

\* The orders sort_values(by="week_start_date") may leave the rows in: the
\* keys ascend; rows of equal keys in any order (the default sort is not
\* stable).
SortedOrders(frames) ==
    {p \in IndexPermutations(Len(frames)) :
        \A i, j \in 1..Len(frames) :
            i < j => ~str_less(frames[p[j]].vals[1], frames[p[i]].vals[1])}

Reorder(table, p) ==
    Table(table.columns, [i \in 1..Len(table.rows) |-> table.rows[p[i]]])

BatchInit ==
    /\ listing \in {l \in UNION {[1..n -> EntryNames] : n \in 0..MaxEntries} :
                        \A i, j \in 1..Len(l) : l[i] = l[j] => i = j}
    /\ content \in {c \in [{FileA, FileB, FileC} -> DocNames] :
                        \A f \in DOMAIN c :
                            (\A i \in 1..Len(listing) : listing[i] # f)
                                => c[f] = "doc1"}
    /\ csvsExists \in BOOLEAN
    /\ outFiles \in IF csvsExists
                    THEN {<<>>, SUMMARY_CSV :> StaleTable}
                    ELSE {<<>>}
    /\ pc = "loop"
    /\ idx = 1
    /\ rows = <<>>
    /\ df = NoTable
    /\ calls = <<>>

BatchIdle ==
    /\ listing = <<>>
    /\ content = <<>>
    /\ csvsExists = FALSE
    /\ outFiles = <<>>
    /\ pc = "idle"
    /\ idx = 1
    /\ rows = <<>>
    /\ df = NoTable
    /\ calls = <<>>

\* for f in files: if not f.endswith(".pdf"): continue
SkipEntry ==
    /\ pc = "loop"
    /\ idx <= Len(listing)
    /\ ~endswith(listing[idx], PDF_EXT)
    /\ idx' = idx + 1
    /\ UNCHANGED <<listing, content, csvsExists, outFiles, pc, rows, df, calls>>
    /\ UNCHANGED notBatch

\* rows.append(parse_summary(f))
ParseSummaryReturns ==
    /\ pc = "loop"
    /\ idx <= Len(listing)
    /\ endswith(listing[idx], PDF_EXT)
    /\ ~ParseRaises[content[listing[idx]]]
    /\ calls' = Append(calls, <<"parse_summary", listing[idx]>>)
    /\ rows' = Append(rows, ParsedRow[listing[idx], content[listing[idx]]])
    /\ idx' = idx + 1
    /\ UNCHANGED <<listing, content, csvsExists, outFiles, pc, df>>
    /\ UNCHANGED notBatch

\* The loop as it would be if it caught the error of one file and went on
\* with the next.
ParseSummaryRaises_skipped ==
    /\ pc = "loop"
    /\ idx <= Len(listing)
    /\ endswith(listing[idx], PDF_EXT)
    /\ ParseRaises[content[listing[idx]]]
    /\ calls' = Append(calls, <<"parse_summary", listing[idx]>>)
    /\ idx' = idx + 1
    /\ UNCHANGED <<listing, content, csvsExists, outFiles, pc, rows, df>>
    /\ UNCHANGED notBatch

\* parse_summary(f) raises: nothing catches it, the run ends.
ParseSummaryRaises ==
    /\ pc = "loop"
    /\ idx <= Len(listing)
    /\ endswith(listing[idx], PDF_EXT)
    /\ ParseRaises[content[listing[idx]]]
    /\ calls' = Append(calls, <<"parse_summary", listing[idx]>>)
    /\ pc' = "raised"
    /\ UNCHANGED <<listing, content, csvsExists, outFiles, idx, rows, df>>
    /\ UNCHANGED notBatch

\* df = pd.concat(rows).sort_values(by="week_start_date"); pd.concat raises
\* ValueError on an empty list.
ConcatAndSort ==
    /\ pc = "loop"
    /\ idx > Len(listing)
    /\ \/ /\ rows = <<>>
          /\ pc' = "raised"
          /\ df' = df
       \/ /\ rows # <<>>
          /\ \E p \in SortedOrders(rows) : df' = Reorder(concat(rows), p)
          /\ pc' = "to_csv"
    /\ UNCHANGED <<listing, content, csvsExists, outFiles, idx, rows, calls>>
    /\ UNCHANGED notBatch

\* df.to_csv(output_file, index=False): opening csvs/summary.csv for
\* writing raises when the directory csvs does not exist.
ToCsv ==
    /\ pc = "to_csv"
    /\ \/ /\ csvsExists
          /\ outFiles' = (SUMMARY_CSV :> df) @@ outFiles
          /\ pc' = "done"
       \/ /\ ~csvsExists
          /\ outFiles' = outFiles
          /\ pc' = "raised"
    /\ UNCHANGED <<listing, content, csvsExists, idx, rows, df, calls>>
    /\ UNCHANGED notBatch

---------------------------------------------------------------------------
(* parse_history.py: constants.                                            *)

START_X == 392
START_Y == 412
SEGMENT_WIDTH == 723
DAY_HEIGHT == 346
FEEDING_HEIGHT == 200
DIAPER_HEIGHT == 60
PADDING_HEIGHT == 20
NUM_DAYS == 7
NUM_BINS == 6
THRESHOLD == 235

\* PIXELS_PER_MINUTE = SEGMENT_WIDTH / 4.0 / 60.0 is SEGMENT_WIDTH over
\* MINUTES_PER_SEGMENT; as a double it is 3.0125 + 1/5629499534213120, a
\* little above the fraction 723/240.
HOURS_PER_SEGMENT == 4
MINUTES_PER_HOUR == 60
MINUTES_PER_SEGMENT == HOURS_PER_SEGMENT * MINUTES_PER_HOUR
MINUTES_PER_DAY == 24 * MINUTES_PER_HOUR

BLUE == "BLUE"
YELLOW == "YELLOW"
WHITE == "WHITE"
DARK == "DARK"
\* Python's None.
NONE == "None"

\* np.nan in a series of 1s and 0s: a value that equals neither.
NAN == -1

---------------------------------------------------------------------------
(* parse_history.py: colour classification.                                *)

\* _get_color_range with the yellow test as r >= THRESHOLD.
get_color_range_yellow_ge(r, g, b) ==
    IF r = g /\ g = b
    THEN IF r >= THRESHOLD THEN WHITE ELSE DARK
    ELSE IF b >= THRESHOLD /\ r < THRESHOLD /\ g < THRESHOLD
    THEN BLUE
    ELSE IF r >= THRESHOLD /\ b < THRESHOLD /\ g < THRESHOLD
    THEN YELLOW
    ELSE NONE

get_color_range(r, g, b) ==
    IF r = g /\ g = b
    THEN IF r >= THRESHOLD THEN WHITE ELSE DARK
    ELSE IF b >= THRESHOLD /\ r < THRESHOLD /\ g < THRESHOLD
    THEN BLUE
    ELSE IF r > THRESHOLD /\ b < THRESHOLD /\ g < THRESHOLD
    THEN YELLOW
    ELSE NONE

---------------------------------------------------------------------------
(* parse_history.py: run-length segmentation.                              *)

\* n > PIXELS_PER_MINUTE for an integer n: n / 1 > 723 / 240 (the double's
\* excess over the fraction is far below 1/240).
exceeds_pixels_per_minute(n) == n * MINUTES_PER_SEGMENT > SEGMENT_WIDTH

\* int(n / PIXELS_PER_MINUTE): the quotient rounds to the nearest double, so
\* a whole number of minutes comes out whole, and int truncates.
int_true_div_pixels_per_minute(n) == (n * MINUTES_PER_SEGMENT) \div SEGMENT_WIDTH

\* n // PIXELS_PER_MINUTE: float floor division is the floor of the exact
\* quotient by the double, which is a little more than 723/240: a whole
\* number of minutes comes out one short (241 // 3.0125 is 79.0).
floor_div_pixels_per_minute(n) ==
    IF n = 0 THEN 0 ELSE (n * MINUTES_PER_SEGMENT - 1) \div SEGMENT_WIDTH

\* datetime.datetime(date.year, date.month, date.day, hour, minutes)
datetime(date, hour, minutes) == [date |-> date, hour |-> hour, minute |-> minutes]

\* total_pixels = (bin_num + 1) * SEGMENT_WIDTH + start_i
total_pixels_next_bin(bin_num, start_i) == (bin_num + 1) * SEGMENT_WIDTH + start_i

\* total_pixels = (bin_num * SEGMENT_WIDTH + start_i)
total_pixels_of(bin_num, start_i) == bin_num * SEGMENT_WIDTH + start_i

\* The state of the loop of process_timeseries before it starts.
LoopStart == [prev_val |-> 0, current_duration |-> 0, results |-> <<>>]

\* One round of the loop, at index i (0-based) of values.
LoopBody(values, bin_num, date, st, i) ==
    LET val == values[i + 1]
    IN IF val = 1
       THEN [st EXCEPT !.current_duration = st.current_duration + 1,
                       !.prev_val = val]
       ELSE IF st.prev_val = 1 /\ exceeds_pixels_per_minute(st.current_duration)
       THEN LET start_i == i - st.current_duration
                total_pixels == total_pixels_of(bin_num, start_i)
                total_minutes == Min(int_true_div_pixels_per_minute(total_pixels),
                                     MINUTES_PER_DAY - 1)
                hour == total_minutes \div MINUTES_PER_HOUR
                minutes == total_minutes % MINUTES_PER_HOUR
                dt == datetime(date, hour, minutes)
            IN [prev_val |-> val,
                current_duration |-> 0,
                results |-> Append(st.results,
                    <<dt, floor_div_pixels_per_minute(st.current_duration)>>)]
       ELSE [st EXCEPT !.prev_val = val]

\* The rounds of the loop for the indices lo..hi, in order, from state st:
\* the first half of the range, then the second half from where the first
\* ended (the test on left has it computed before the second half starts).
RECURSIVE Loop(_, _, _, _, _, _)
Loop(values, bin_num, date, st, lo, hi) ==
    IF lo > hi THEN st
    ELSE IF lo = hi THEN LoopBody(values, bin_num, date, st, lo)
    ELSE LET mid == (lo + hi) \div 2
             left == Loop(values, bin_num, date, st, lo, mid)
         IN IF left.current_duration >= 0
            THEN Loop(values, bin_num, date, left, mid + 1, hi)
            ELSE left

process_timeseries(values, bin_num, date) ==
    Loop(values, bin_num, date, LoopStart, 0, Len(values) - 1).results

---------------------------------------------------------------------------
(* parse_history.py: the rendered page.  An image is given by the mean     *)
(* colour of each pixel column of each strip, which is all the extraction  *)
(* reads of it: a feeding pattern and a diaper pattern of colours that     *)
(* repeat along x, shifted by the strip's vertical position and by the     *)
(* image's offset, so that the windows of a page see the pattern at        *)
(* different phases and cut its runs at different places.                  *)

White == <<255, 255, 255>>
Yellow == <<250, 200, 50>>
Blue == <<50, 100, 250>>
Dark == <<0, 0, 0>>
\* An anti-aliased edge: no colour range holds it.
Edge == <<240, 240, 200>>

\* Runs of five columns; and a column of noise, a gap, a run of three
\* columns and an edge.
FeedingPatterns ==
    << <<Yellow, Yellow, Yellow, Yellow, Yellow, White, White>>,
       <<Yellow, White, Yellow, Yellow, Yellow, Edge, White, White>> >>

\* Runs of four columns; and runs of six columns next to a grid line, with
\* a column of the other strip's colour.
DiaperPatterns ==
    << <<Blue, Blue, Blue, Blue, White>>,
       <<Blue, Blue, Blue, Blue, Blue, Blue, Dark, White, Yellow, White>> >>

Images ==
    {[feeding |-> FeedingPatterns[k], diapers |-> DiaperPatterns[k], offset |-> o] :
        k \in 1..Len(FeedingPatterns), o \in 0..MaxOffset}

\* The weeks extracted: those starting 2023-01-02 and 2023-01-09, as day
\* ordinals.
StartDates == {738522, 738529}

\* _get_average_rgb over the one-pixel column x of the strip that starts at
\* vertical_start: the strip's mean colour there.
get_average_rgb(pixels, x, vertical_start) ==
    LET in_row == (vertical_start - START_Y) % DAY_HEIGHT
        pattern == IF in_row < PADDING_HEIGHT + FEEDING_HEIGHT
                   THEN pixels.feeding
                   ELSE pixels.diapers
    IN pattern[((x + vertical_start + pixels.offset) % Len(pattern)) + 1]

extract_timeseries(timeseries_type, pixels, start_i, end_i, start_j, end_j) ==
    LET target_color == IF timeseries_type = "breastfeeding" THEN YELLOW ELSE BLUE
        vertical_start ==
            IF timeseries_type = "breastfeeding"
            THEN start_j + PADDING_HEIGHT
            ELSE start_j + PADDING_HEIGHT * 2 + FEEDING_HEIGHT
    IN [k \in 1..(end_i - start_i) |->
           LET rgb_color == get_average_rgb(pixels, start_i + k - 1, vertical_start)
               color_range == get_color_range(rgb_color[1], rgb_color[2], rgb_color[3])
           IN IF color_range = WHITE THEN 0
              ELSE IF color_range = target_color THEN 1
              ELSE NAN]

\* _extract_window: (feedings, diapers) of one window.
extract_window(pixels, day, bin_num, date) ==
    LET start_i == START_X + SEGMENT_WIDTH * bin_num
        start_j == START_Y + DAY_HEIGHT * day
        end_i == start_i + SEGMENT_WIDTH
        end_j == start_j + DAY_HEIGHT
        raw_feedings == extract_timeseries("breastfeeding", pixels,
                                           start_i, end_i, start_j, end_j)
        raw_diapers == extract_timeseries("diapers", pixels,
                                          start_i, end_i, start_j, end_j)
    IN <<process_timeseries(raw_feedings, bin_num, date),
         process_timeseries(raw_diapers, bin_num, date)>>

\* date = start_date + datetime.timedelta(days=6 - day)
row_date(start, day) == start + (6 - day)

\* The rows _extract_windows appends for one window.
WindowRows(window_feedings, window_diapers) ==
    [k \in 1..Len(window_feedings) |->
        [timestamp |-> window_feedings[k][1], event |-> "breastfeeding",
         duration |-> window_feedings[k][2]]]
    \o [k \in 1..Len(window_diapers) |->
        [timestamp |-> window_diapers[k][1], event |-> "diaper",
         duration |-> NAN]]

---------------------------------------------------------------------------
(* parse_history.py: one call of extract.                                  *)

HistoryInit ==
    /\ tmpExists \in BOOLEAN
    /\ tmpSubdir = FALSE
    /\ image \in Images
    /\ start_date \in StartDates
    /\ hpc = "write_tmp_jpg"
    /\ window = 0
    /\ data = <<>>

\* _write_tmp_jpg: os.path has no function mkdir, so the call made when
\* TEMP_DIR is no directory raises AttributeError; otherwise the converter
\* writes the page into a subdirectory of TEMP_DIR.
WriteTmpJpg ==
    /\ hpc = "write_tmp_jpg"
    /\ \/ /\ ~tmpExists
          /\ hpc' = "raised"
          /\ tmpSubdir' = tmpSubdir
       \/ /\ tmpExists
          /\ tmpSubdir' = TRUE
          /\ hpc' = "windows"
    /\ UNCHANGED <<tmpExists, image, start_date, window, data>>
    /\ UNCHANGED notHistory

\* _extract_windows: one round of the loops over day and bin_num.
ExtractWindow ==
    /\ hpc = "windows"
    /\ window < NUM_DAYS * NUM_BINS
    /\ LET day == window \div NUM_BINS
           bin == window % NUM_BINS
           extracted == extract_window(image, day, bin, row_date(start_date, day))
       IN data' = data \o WindowRows(extracted[1], extracted[2])
    /\ window' = window + 1
    /\ UNCHANGED <<tmpExists, tmpSubdir, image, start_date, hpc>>
    /\ UNCHANGED notHistory

\* shutil.rmtree(tmp_subdir); return results
RemoveTmpSubdir ==
    /\ hpc = "windows"
    /\ window = NUM_DAYS * NUM_BINS
    /\ tmpSubdir' = FALSE
    /\ hpc' = "returned"
    /\ UNCHANGED <<tmpExists, image, start_date, window, data>>
    /\ UNCHANGED notHistory

---------------------------------------------------------------------------
(* process_timeseries on its own series.                                   *)

\* The run lengths that are a whole number of minutes.
WholeMinuteRuns ==
    {n \in 1..(SEGMENT_WIDTH - 1) : (n * MINUTES_PER_SEGMENT) % SEGMENT_WIDTH = 0}

\* The series tried: every series of up to MaxLen values, and the closed
\* runs of a whole number of minutes.
SeriesInputs ==
    UNION {[1..n -> {1, 0, NAN}] : n \in 0..MaxLen}
        \cup {[i \in 1..(n + 1) |-> IF i <= n THEN 1 ELSE 0] : n \in WholeMinuteRuns}

SeriesInit ==
    /\ arg_values \in SeriesInputs
    /\ arg_bin_num \in 0..(NUM_BINS - 1)
    /\ arg_date \in StartDates
    /\ ret_results = <<>>
    /\ tpc = "call"

ProcessTimeseries ==
    /\ tpc = "call"
    /\ ret_results' = process_timeseries(arg_values, arg_bin_num, arg_date)
    /\ tpc' = "returned"
    /\ UNCHANGED <<arg_values, arg_bin_num, arg_date>>
    /\ UNCHANGED notSeries

---------------------------------------------------------------------------
(* _get_color_range on its own triples.                                    *)

ColorValues ==
    {0, 255} \cup ((THRESHOLD - ColorDelta)..(THRESHOLD + ColorDelta))

ColorInit ==
    /\ arg_rgb \in ColorValues \X ColorValues \X ColorValues
    /\ ret_color = "unset"
    /\ cpc = "call"

GetColorRange ==
    /\ cpc = "call"
    /\ ret_color' = get_color_range(arg_rgb[1], arg_rgb[2], arg_rgb[3])
    /\ cpc' = "returned"
    /\ UNCHANGED arg_rgb
    /\ UNCHANGED notColor

---------------------------------------------------------------------------
(* The parts of the state a specification does not exercise stay idle.     *)

HistoryIdle ==
    /\ tmpExists = FALSE
    /\ tmpSubdir = FALSE
    /\ image = [feeding |-> <<>>, diapers |-> <<>>, offset |-> 0]
    /\ start_date = 0
    /\ hpc = "idle"
    /\ window = 0
    /\ data = <<>>

SeriesIdle ==
    /\ arg_values = <<>>
    /\ arg_bin_num = 0
    /\ arg_date = 0
    /\ ret_results = <<>>
    /\ tpc = "idle"

ColorIdle ==
    /\ arg_rgb = <<0, 0, 0>>
    /\ ret_color = "idle"
    /\ cpc = "idle"

\* The batch run of parse.py.
Init == BatchInit /\ HistoryIdle /\ SeriesIdle /\ ColorIdle
Next ==
    \/ SkipEntry
    \/ ParseSummaryReturns
    \/ ParseSummaryRaises
    \/ ConcatAndSort
    \/ ToCsv
Spec == Init /\ [][Next]_vars

\* One call of extract of parse_history.py.
InitHistory == HistoryInit /\ BatchIdle /\ SeriesIdle /\ ColorIdle
NextHistory ==
    \/ WriteTmpJpg
    \/ ExtractWindow
    \/ RemoveTmpSubdir
SpecHistory == InitHistory /\ [][NextHistory]_vars

\* One call of process_timeseries.
InitSeries == SeriesInit /\ BatchIdle /\ HistoryIdle /\ ColorIdle
NextSeries == ProcessTimeseries
SpecSeries == InitSeries /\ [][NextSeries]_vars

\* One call of _get_color_range.
InitColor == ColorInit /\ BatchIdle /\ HistoryIdle /\ SeriesIdle
NextColor == GetColorRange
SpecColor == InitColor /\ [][NextColor]_vars

---------------------------------------------------------------------------
(* The batch run: what is claimed of it.                                   *)

\* A name that ends with ".pdf".
IsPdfName(n) ==
    /\ Len(n) >= 4
    /\ n[Len(n) - 3] = "."
    /\ n[Len(n) - 2] = "p"
    /\ n[Len(n) - 1] = "d"
    /\ n[Len(n)] = "f"

\* The entries of a listing that are PDFs, in listing order.
Selected(l) == SelectSeq(l, IsPdfName)

\* Whether a parser was invoked on a file.
Invoked(component, f) ==
    \E k \in 1..Len(calls) : calls[k] = <<component, f>>

\* The run has ended without an error.
Completed == pc = "done"

\* C2: a batch run invokes the Summary Parser and the History Extractor on
\* every entry selected as a PDF, and a run that completes without error has
\* written both summary.csv and events.csv.
C2_BothParsersBothFiles ==
    Completed =>
        /\ SUMMARY_CSV \in DOMAIN outFiles
        /\ EVENTS_CSV \in DOMAIN outFiles
        /\ \A i \in 1..Len(listing) :
               IsPdfName(listing[i]) =>
                   /\ Invoked("parse_summary", listing[i])
                   /\ Invoked("extract", listing[i])

\* Some selected file of the listing cannot be parsed.
SomeSelectedFails ==
    \E i \in 1..Len(listing) :
        IsPdfName(listing[i]) /\ ParseRaises[content[listing[i]]]

\* Every selected file has been parsed, successfully.
AllSelectedParsed ==
    /\ ~SomeSelectedFails
    /\ Len(rows) = Len(Selected(listing))
    /\ \A i \in 1..Len(listing) :
           IsPdfName(listing[i]) => Invoked("parse_summary", listing[i])

\* C3: all-or-nothing output.  In a run in which the processing of some
\* input file fails, at whatever position of the listing, no step creates or
\* modifies an output file; and the output files change only in a state in
\* which every selected file has already been parsed successfully.
C3_AllOrNothing ==
    [][/\ SomeSelectedFails => outFiles' = outFiles
       /\ outFiles' # outFiles => AllSelectedParsed]_vars

\* C3's case: a file failed after another had been parsed; the summary.csv of
\* an earlier run is still what it was.
C3_Witness ==
    /\ pc = "raised"
    /\ Len(rows) >= 1
    /\ SomeSelectedFails
    /\ SUMMARY_CSV \in DOMAIN outFiles
    /\ outFiles[SUMMARY_CSV] = StaleTable

\* The rows parse_summary yields for the selected entries of a listing.
RowsOf(l) ==
    [k \in 1..Len(Selected(l)) |->
        ParsedRow[Selected(l)[k], content[Selected(l)[k]]]]

\* C4: the rows written to summary.csv are exactly one row per listing entry
\* whose name ends with ".pdf", no parse is attempted on any other entry, and
\* the rows ascend by week_start_date.
C4_OneRowPerPdfSorted ==
    /\ \A k \in 1..Len(calls) : IsPdfName(calls[k][2])
    /\ Completed =>
           LET written == outFiles[SUMMARY_CSV].rows
               expected == RowsOf(listing)
           IN /\ Len(written) = Len(expected)
              /\ \E p \in IndexPermutations(Len(expected)) :
                     \A i \in 1..Len(expected) : written[i] = expected[p[i]]
              /\ \A i, j \in 1..Len(written) :
                     i < j => ~str_less(written[j].vals[1], written[i].vals[1])

\* C4's case: a listing with an entry that is no PDF and two PDFs listed
\* against the order of their dates, written out.
C4_Witness ==
    /\ Completed
    /\ \E i \in 1..Len(listing) : ~IsPdfName(listing[i])
    /\ Len(rows) >= 2
    /\ str_less(rows[2].vals[1], rows[1].vals[1])

\* The orderings of a listing.
Orderings(l) ==
    {[i \in 1..Len(l) |-> l[p[i]]] : p \in IndexPermutations(Len(l))}

\* The tables a run over a listing may write.
OutputsOf(l) ==
    {Reorder(concat(RowsOf(l)), p) : p \in SortedOrders(RowsOf(l))}

\* C5 as stated: for any two orderings of the same input files, files of the
\* same week_start_date and rows of different column sets included, the
\* summary.csv written is the same, rows and columns in the same order.
C5_AnyOrderSameOutput ==
    Completed =>
        \A l \in Orderings(listing) : OutputsOf(l) = {outFiles[SUMMARY_CSV]}

\* The week_start_dates of the parsed rows are pairwise distinct.
DistinctDates ==
    \A i, j \in 1..Len(rows) : rows[i].vals[1] = rows[j].vals[1] => i = j

\* The parsed rows all have the same column list.
SameColumnLists ==
    \A i, j \in 1..Len(rows) : rows[i].columns = rows[j].columns

\* C5 as amended: for any two orderings of the same input files whose
\* week_start_dates are pairwise distinct and whose rows all have the same
\* column list, the summary.csv written is the same, rows and columns in the
\* same order.
C5_OrderIndependentWhenDistinct ==
    (Completed /\ DistinctDates /\ SameColumnLists) =>
        \A l \in Orderings(listing) : OutputsOf(l) = {outFiles[SUMMARY_CSV]}

\* C5's case: two files of different weeks and the same columns, listed
\* against the order of their dates, written out.
C5_Witness ==
    /\ Completed
    /\ Len(rows) >= 2
    /\ DistinctDates
    /\ SameColumnLists
    /\ str_less(rows[2].vals[1], rows[1].vals[1])

\* C6: when csvs/ does not exist at the start of a run whose files all
\* parse, the run creates it and completes by writing the output into it;
\* when it exists, that is no error.  (No step changes csvsExists, so its
\* value at the end of the run is its value at the start.)
C6_CreatesOutputDirectory ==
    (/\ pc \in {"done", "raised"}
     /\ Len(Selected(listing)) >= 1
     /\ AllSelectedParsed) =>
        /\ pc = "done"
        /\ csvsExists
        /\ SUMMARY_CSV \in DOMAIN outFiles

\* The bottle-feeding column names _parse_feedings builds from each document,
\* computed once.
BuiltBottleColumns == [d \in DocNames |-> BottleColumns(Document(d)[2])]

\* Those of the file of the k-th row: a raising file ends the run, so the
\* k-th row is the k-th call's.
BuiltOfRow(k) == BuiltBottleColumns[content[calls[k][2]]]

\* c is orig lower-cased, its spaces replaced by underscores.
IsNormalizedFrom(c, orig) ==
    /\ Len(c) = Len(orig)
    /\ \A n \in 1..Len(orig) :
           c[n] = IF orig[n] = " " THEN "_" ELSE lower_char(orig[n])

\* c has no upper-case letter and no space.
IsLowerUnderscored(c) ==
    \A n \in 1..Len(c) : c[n] # " " /\ c[n] \notin UPPER_SET

HasColumn(frame, c) == \E j \in 1..Len(frame.columns) : frame.columns[j] = c

---------------------------------------------------------------------------
(* Run-length segmentation: what is claimed of it.                         *)

\* The index (1-based) of the last 1 of the maximal run of 1s that starts
\* at index s of values.
RunEnd(values, s) ==
    CHOOSE e \in s..Len(values) :
        /\ \A j \in s..e : values[j] = 1
        /\ e = Len(values) \/ values[e + 1] # 1

\* The indices at which a maximal run of 1s starts.
RunStarts(values) ==
    {s \in 1..Len(values) : values[s] = 1 /\ (s = 1 \/ values[s - 1] # 1)}

\* A run emits when it has at least 4 columns and a column follows it.
EmittingStarts(values) ==
    {s \in RunStarts(values) :
        /\ RunEnd(values, s) - s + 1 >= 4
        /\ RunEnd(values, s) < Len(values)}

\* The event of the run that starts at index s: its time is that of the
\* run's first column, its duration that of the run's own length.
EventOfRun(values, bin_num, date, s) ==
    LET run_length == RunEnd(values, s) - s + 1
        pixel_offset == bin_num * SEGMENT_WIDTH + (s - 1)
        minute_of_day == Min((pixel_offset * MINUTES_PER_SEGMENT) \div SEGMENT_WIDTH,
                             MINUTES_PER_DAY - 1)
    IN <<[date |-> date,
          hour |-> minute_of_day \div MINUTES_PER_HOUR,
          minute |-> minute_of_day % MINUTES_PER_HOUR],
         (run_length * MINUTES_PER_SEGMENT) \div SEGMENT_WIDTH>>

\* The events of the emitting runs, in the order of the runs.
ExpectedEvents(values, bin_num, date) ==
    LET starts == EmittingStarts(values)
        nth(k) == CHOOSE s \in starts : Cardinality({t \in starts : t < s}) = k - 1
    IN [k \in 1..Cardinality(starts) |-> EventOfRun(values, bin_num, date, nth(k))]

\* C1: process_timeseries returns exactly one event for each maximal run of
\* 1s that has at least 4 columns and is followed by another value, and no
\* other event; the event starts at the run's first column and lasts
\* floor(run_length * 240 / 723) minutes of the run's own length, so that a
\* run of 3 or fewer columns adds nothing to any event and a run open at
\* the last column emits nothing.
C1_OneEventPerLongRun ==
    tpc = "returned" =>
        ret_results = ExpectedEvents(arg_values, arg_bin_num, arg_date)

---------------------------------------------------------------------------
(* The temporary directory: what is claimed of it.                         *)

\* C8: extract does not fail for want of tmp/: once past the rendering
\* step the directory exists and no exception has been raised, whether or
\* not the directory existed before the call.
C8_CreatesTmpAndProceeds ==
    hpc # "write_tmp_jpg" => (tmpExists /\ hpc # "raised")

---------------------------------------------------------------------------
(* Colour classification: what is claimed of it.                           *)

AllEqual(rgb) == rgb[1] = rgb[2] /\ rgb[2] = rgb[3]

IsWhite(rgb) == AllEqual(rgb) /\ rgb[1] >= 235
IsDark(rgb) == AllEqual(rgb) /\ rgb[1] < 235
IsBlue(rgb) == ~AllEqual(rgb) /\ rgb[3] >= 235 /\ rgb[1] < 235 /\ rgb[2] < 235
IsYellow(rgb) == ~AllEqual(rgb) /\ rgb[1] > 235 /\ rgb[3] < 235 /\ rgb[2] < 235

\* C9: the classification returns WHITE iff r = g = b >= 235, DARK iff
\* r = g = b < 235, BLUE iff the components are not all equal and b >= 235,
\* r < 235, g < 235, YELLOW iff they are not all equal and r > 235, b < 235,
\* g < 235, and nothing otherwise; so (235,235,235) is WHITE, (234,234,234)
\* DARK, (0,0,240) BLUE, (240,0,0) YELLOW, and (240,240,0) and (235,0,0)
\* are unclassified.
C9_ColorRanges ==
    cpc = "returned" =>
        /\ ret_color = WHITE <=> IsWhite(arg_rgb)
        /\ ret_color = DARK <=> IsDark(arg_rgb)
        /\ ret_color = BLUE <=> IsBlue(arg_rgb)
        /\ ret_color = YELLOW <=> IsYellow(arg_rgb)
        /\ ret_color = NONE <=>
               ~(IsWhite(arg_rgb) \/ IsDark(arg_rgb)
                    \/ IsBlue(arg_rgb) \/ IsYellow(arg_rgb))
        /\ arg_rgb = <<235, 235, 235>> => ret_color = WHITE
        /\ arg_rgb = <<234, 234, 234>> => ret_color = DARK
        /\ arg_rgb = <<0, 0, 240>> => ret_color = BLUE
        /\ arg_rgb = <<240, 0, 0>> => ret_color = YELLOW
        /\ arg_rgb = <<240, 240, 0>> => ret_color = NONE
        /\ arg_rgb = <<235, 0, 0>> => ret_color = NONE

\* A red component exactly at the threshold has been classified.
C9_Witness ==
    cpc = "returned" /\ arg_rgb = <<235, 0, 0>> /\ ret_color = NONE

---------------------------------------------------------------------------
(* Dates and times of the events: what is claimed of them.                 *)

MinuteOfDay(timestamp) == timestamp.hour * 60 + timestamp.minute

\* The time of day of the column at pixel_offset from midnight.
MinuteOfOffset(pixel_offset) == Min((pixel_offset * 240) \div 723, 1439)

\* The row is an event of the cell (day, bin) of the week that starts at
\* start.
RowOfCell(row, start, day, bin) ==
    /\ row.timestamp.date = start + (6 - day)
    /\ row.timestamp.hour \in 0..23
    /\ row.timestamp.minute \in 0..59
    /\ MinuteOfDay(row.timestamp) >= 240 * bin
    /\ MinuteOfDay(row.timestamp) <= 240 * bin + 239
    /\ \E pixel_offset \in (723 * bin)..(723 * bin + 722) :
           MinuteOfDay(row.timestamp) = MinuteOfOffset(pixel_offset)

\* C10: every event emitted for the cell (day, bin) carries the date
\* start_date + (6 - day) days and a time of day, that of one of the
\* cell's columns, min(floor(pixel_offset * 240 / 723), 1439) minutes, inside
\* the bin's own window [240 * bin, 240 * bin + 239]; its hour is in 0..23
\* and its minute in 0..59, so no event rolls into the next day.
C10_EventsInsideTheirCell ==
    [][(hpc = "windows" /\ window' = window + 1) =>
          \A k \in (Len(data) + 1)..Len(data') :
              RowOfCell(data'[k], start_date, window \div 6, window % 6)]_vars

\* Events of the first two rows (the week's last two days) have been
\* emitted, one of them in the last minutes of the week's last day.
C10_Witness ==
    /\ hpc = "windows"
    /\ \E k \in 1..Len(data) :
           /\ data[k].timestamp.date = start_date + 6
           /\ MinuteOfDay(data[k].timestamp) >= 1435
    /\ \E k \in 1..Len(data) :
           /\ data[k].timestamp.date = start_date + 5
           /\ MinuteOfDay(data[k].timestamp) < 5

=============================================================================
